---- MODULE Spec2Model ----
(***************************************************************************)
(* The versioned job/package orchestrator of the visa backend              *)
(* (backend/app/main.py over the tables of backend/app/models.py) and the  *)
(* queue it pushes to (backend/app/queue.py).                              *)
(*                                                                         *)
(* Every HTTP handler runs in its own SQLAlchemy session (db.py,           *)
(* SessionLocal: autoflush=False) against one shared database.  A handler  *)
(* that writes is therefore two steps in the model: its SELECTs and its    *)
(* guards ("...Begin"), and its db.commit() ("...Commit"), which flushes    *)
(* the pending INSERTs and UPDATEs as one transaction.  Between the two     *)
(* steps other handlers may run.  The unit of work writes a column only    *)
(* when the attribute's value differs from the value the session loaded,   *)
(* and the UPDATE carries no condition but the primary key.  generate and  *)
(* regenerate have a third step, the push to the queue after the commit.   *)
(***************************************************************************)
EXTENDS Integers, Sequences, FiniteSets, Bags, TLC

(* ------------------------------ bounds -------------------------------- *)
(* Spec, the whole orchestrator: *)
MaxCompanies == 1
MaxPackages == 1
MaxJobs == 2
MaxInflight == 2
MaxFiles == 2
NumPassports == 1
NumNames == 1
NumContractNumbers == 2
(* SpecRequests, the internal endpoints on the job of one package: *)
MaxReqPackages == 1
MaxReqJobs == 1
(* SpecWorker, the workers on the queue: *)
NumWorkers == 2
MaxWorkerPackages == 1
MaxWorkerJobs == 2
(* SpecDispatch, the way of a job from its commit to a worker: *)
MaxDispatchPackages == 2
MaxDispatchJobs == 3
(* SpecGeneration, the handlers that create packages and jobs: *)
MaxGenPackages == 2
MaxGenJobs == 4
NumGenPassports == 2
NumGenNames == 2
(* SpecDownload, the bundles of one package: *)
MaxDownloadPackages == 1
MaxDownloadJobs == 4
(* SpecMessages, the workers on a list that takes foreign messages: *)
MaxMsgPackages == 1
MaxMsgJobs == 1
MaxForeignMessages == 2
(* SpecMask, the reads that mask a passport number: *)
MaxMaskPackages == 1
MaxMaskJobs == 1
MaxPassportLen == 4

(* ------------------------- program constants -------------------------- *)
ALLOC_ATTEMPTS == 15
ERROR_MESSAGE_MAX == 2000
SEARCH_LIMIT == 30

JobStatus == {"queued", "running", "done", "error"}
PackageStatus == {"created", "generated", "error"}
DocumentType == {"contract", "bank", "insurance", "salary", "bundle"}

(* An optional value: None, or Some(x). *)
None == <<>>
Some(x) == <<x>>
(* A "version" of a file item that int() does not take, such as "v1". *)
NotANumber == <<0, 0>>

Min(a, b) == IF a < b THEN a ELSE b

(* ------------------------------ inputs -------------------------------- *)
CompanyNames == 1..MaxCompanies
ContractNumbers == 1..NumContractNumbers
FxInputs == {"manual", "manual_no_rate", "cbr", "cbr_unavailable"}
(* Lengths of the error_message a fail call carries: one that is cut, and *)
(* around the length it is cut to.                                         *)
MessageLengths == {ERROR_MESSAGE_MAX + 1}
AllMessageLengths == {ERROR_MESSAGE_MAX - 1, ERROR_MESSAGE_MAX, ERROR_MESSAGE_MAX + 1}

(* The items of a complete call's body.files: doc_type "" is a missing     *)
(* doc_type, "passport" a value DocumentType does not have; has_key FALSE  *)
(* is a missing storage_key or filename; version None is no "version".     *)
InputDocTypes == {"contract", "bundle"}
ItemsDeclaring(versions) ==
    [doc_type : InputDocTypes, has_key : {TRUE}, version : versions]
BrokenItems ==
    {[doc_type |-> "", has_key |-> TRUE, version |-> None],
     [doc_type |-> "passport", has_key |-> TRUE, version |-> None],
     [doc_type |-> "contract", has_key |-> FALSE, version |-> None]}
(* Items that declare no version, and the broken ones. *)
UnversionedFileItems == ItemsDeclaring({None}) \cup BrokenItems
FileItems ==
    ItemsDeclaring({None, Some(1), Some(2)}) \cup BrokenItems
    \cup {[doc_type |-> "contract", has_key |-> TRUE, version |-> NotANumber]}
FileLists(items) == UNION {[1..n -> items] : n \in 0..MaxFiles}

(* A passport number is a string; the model takes its characters from two  *)
(* that str.isalnum holds of and two it does not, '*' among them.          *)
AlnumChars == {"A", "7"}
Chars == AlnumChars \cup {"-", "*"}
IsAlnum(ch) == ch \in AlnumChars
PassportNumbers == UNION {[1..n -> Chars] : n \in 0..MaxPassportLen}

(* ------------------------------- state -------------------------------- *)
VARIABLES
    companies,   \* table companies: sequence of names, the id is the index
    clients,     \* table clients: [passport, full_name]
    packages,    \* table packages: [status, version_counter, contract_number, client_id, company_id]
    jobs,        \* table jobs: [package_id, status, version, error_message, started_at, finished_at]
    documents,   \* table documents: bag of rows [package_id, doc_type, version]
    queue,       \* the Redis list visa_jobs, head first
    inflight,    \* bag of handlers between their reads and their end
    resp         \* the HTTP response the last step returned, if it returned one

ledger == <<companies, clients, packages, jobs, documents>>
vars == <<companies, clients, packages, jobs, documents, queue, inflight, resp>>

(* What the claims need of a request: whether it carried the right          *)
(* X-Internal-Api-Key (TRUE where none is asked for) and whether an item   *)
(* of its body.files declared a version other than the job's.              *)
NoReq == [key_ok |-> TRUE, other_version |-> FALSE]

(* op: the handler; code: the HTTP status; detail: the error's detail, for *)
(* a 500 the exception that was not handled; seen: the job status the      *)
(* handler had read, "" when it read none; req: the request answered;      *)
(* body: the items of the answer the claims need, for a download the       *)
(* package asked for and the version of the bundle whose URL is returned   *)
(* (0 when none is), for a read of packages or clients the masked          *)
(* passport number of each client shown.                                   *)
NoResp ==
    [op |-> "", code |-> 0, detail |-> "", seen |-> "", req |-> NoReq,
     body |-> <<>>]
ResponseTo(req, op, code, detail, seen) ==
    [op |-> op, code |-> code, detail |-> detail, seen |-> seen, req |-> req,
     body |-> <<>>]
Response(op, code, detail, seen) == ResponseTo(NoReq, op, code, detail, seen)

(* A handler's session: what it loaded and what it holds pending. *)
NoTxn ==
    [op |-> "", pc |-> "commit", job |-> 0, pkg |-> 0,
     seen_status |-> "", seen_error |-> None, seen_pkg_status |-> "",
     version |-> 0, docs |-> <<>>, message |-> None,
     contract_number |-> 0, client |-> 0, passport |-> 0, full_name |-> 0,
     seen_name |-> 0, company |-> 0, req |-> NoReq, caller |-> 0,
     error_class |-> "", loggable |-> TRUE]

Pending(op, pc) == {t \in BagToSet(inflight) : t.op = op /\ t.pc = pc}
Remove(t) == inflight (-) SetToBag({t})
Add(t) == inflight (+) SetToBag({t})

(* Rooms left under the bounds: rows committed plus rows pending. *)
NPendingOp(op) ==
    LET S == Pending(op, "commit")
        RECURSIVE Sum(_)
        Sum(T) == IF T = {} THEN 0
                  ELSE LET t == CHOOSE x \in T : TRUE
                       IN CopiesIn(t, inflight) + Sum(T \ {t})
    IN Sum(S)
(* The limits a specification puts on the creating handlers (generate,     *)
(* regenerate).  In Spec a creating handler runs alone and the job         *)
(* handlers run MaxInflight at a time; in SpecGeneration the creating      *)
(* handlers run MaxInflight at a time.  A creating handler and a job       *)
(* handler write no column the other reads or writes, so that their        *)
(* interleavings add no ledger state.                                      *)
SpecLimits ==
    [max_packages |-> MaxPackages, max_jobs |-> MaxJobs, alone |-> TRUE,
     passports |-> 1..NumPassports, names |-> 1..NumNames,
     file_items |-> UnversionedFileItems, message_lengths |-> MessageLengths]
GenerationLimits ==
    [max_packages |-> MaxGenPackages, max_jobs |-> MaxGenJobs, alone |-> FALSE,
     passports |-> 1..NumGenPassports, names |-> 1..NumGenNames,
     file_items |-> {}, message_lengths |-> {}]
(* SpecWorker, the workers on the queue. *)
WorkerLimits ==
    [max_packages |-> MaxWorkerPackages, max_jobs |-> MaxWorkerJobs, alone |-> TRUE,
     passports |-> 1..NumPassports, names |-> 1..NumNames,
     file_items |-> {}, message_lengths |-> {}]
(* SpecDispatch, from the commit of a job to a worker. *)
DispatchLimits ==
    [max_packages |-> MaxDispatchPackages, max_jobs |-> MaxDispatchJobs,
     alone |-> FALSE,
     passports |-> 1..NumPassports, names |-> 1..NumNames,
     file_items |-> {}, message_lengths |-> {}]
(* SpecDownload, the bundles of one package and their download. *)
BundleItems == {[doc_type |-> "bundle", has_key |-> TRUE, version |-> None]}
DownloadLimits ==
    [max_packages |-> MaxDownloadPackages, max_jobs |-> MaxDownloadJobs,
     alone |-> FALSE,
     passports |-> 1..NumPassports, names |-> 1..NumNames,
     file_items |-> BundleItems, message_lengths |-> {}]
(* SpecMessages, the workers on a list that takes foreign messages. *)
MessagesLimits ==
    [max_packages |-> MaxMsgPackages, max_jobs |-> MaxMsgJobs, alone |-> TRUE,
     passports |-> 1..NumPassports, names |-> 1..NumNames,
     file_items |-> {}, message_lengths |-> {}]
(* SpecMask, the reads of a client whose passport number is a string. *)
MaskLimits ==
    [max_packages |-> MaxMaskPackages, max_jobs |-> MaxMaskJobs, alone |-> TRUE,
     passports |-> PassportNumbers, names |-> 1..NumNames,
     file_items |-> {}, message_lengths |-> {}]
(* SpecRequests, the internal endpoints with every kind of request. *)
RequestsLimits ==
    [max_packages |-> MaxReqPackages, max_jobs |-> MaxReqJobs, alone |-> TRUE,
     passports |-> 1..NumPassports, names |-> 1..NumNames,
     file_items |-> FileItems, message_lengths |-> AllMessageLengths]

Creating ==
    Pending("generate", "commit") \cup Pending("generate", "enqueue")
    \cup Pending("regenerate", "commit") \cup Pending("regenerate", "enqueue")
(* The workers between their brpop and their call to the backend, the      *)
(* workers that wait for the answer to a call, and the handlers running.   *)
WorkersAtWork == BagOfAll(LAMBDA t : t.op, inflight)
NWorkersAtWork ==
    IF BagIn("worker", WorkersAtWork) THEN CopiesIn("worker", WorkersAtWork) ELSE 0
Callers == BagOfAll(LAMBDA t : t.caller, inflight)
NWorkersWaiting == IF BagIn(1, Callers) THEN CopiesIn(1, Callers) ELSE 0
(* The handlers that stopped before their end: they stay where they       *)
(* stopped and take no further step.                                       *)
Positions == BagOfAll(LAMBDA t : t.pc, inflight)
NStopped == IF BagIn("stopped", Positions) THEN CopiesIn("stopped", Positions) ELSE 0
NHandlers == BagCardinality(inflight) - NWorkersAtWork - NStopped
CanBegin == NHandlers < MaxInflight /\ Creating = {}
CreatingCanBegin(lim) ==
    IF lim.alone THEN NHandlers = 0 ELSE NHandlers < MaxInflight
RoomForPackage(lim) ==
    Len(packages) + NPendingOp("generate") < lim.max_packages
RoomForJob(lim) ==
    Len(jobs) + NPendingOp("generate") + NPendingOp("regenerate") < lim.max_jobs

Init ==
    /\ companies = <<>>
    /\ clients = <<>>
    /\ packages = <<>>
    /\ jobs = <<>>
    /\ documents = EmptyBag
    /\ queue = <<>>
    /\ inflight = EmptyBag
    /\ resp = NoResp

(* A handler that raises HTTPException before its commit: the session is   *)
(* closed (db.py, get_db) and what it held pending is dropped.             *)
RejectRequest(req, op, code, detail, seen) ==
    /\ resp' = ResponseTo(req, op, code, detail, seen)
    /\ UNCHANGED <<ledger, queue, inflight>>

(* A handler that has committed a client row by the time it raises. *)
RejectAfterClientCommit(op, code, detail, seen) ==
    /\ resp' = [op |-> op, code |-> code, detail |-> detail, seen |-> seen,
                req |-> [key_ok |-> TRUE, other_version |-> FALSE],
                body |-> <<>>]
    /\ clients' = Append(clients, [passport |-> 1, full_name |-> 1])
    /\ UNCHANGED <<companies, packages, jobs, documents, queue, inflight>>

Reject(op, code, detail, seen) == RejectRequest(NoReq, op, code, detail, seen)

(* ------------------------- X-Internal-Api-Key ------------------------- *)
(* An internal endpoint without its dependency on require_internal_key. *)
InternalKeyNotRequired(key_ok) == TRUE

(* require_internal_key: passes when the header is there and is the        *)
(* configured key, raises the 401 otherwise.                               *)
RequireInternalKey(key_ok) == key_ok
Unauthorized(op, key_ok) ==
    RejectRequest([NoReq EXCEPT !.key_ok = key_ok], op, 401, "Unauthorized", "")

(* ------------------------- unique constraints ------------------------- *)
(* Company.name, unique=True *)
CompanyNameTaken(name) == \E i \in DOMAIN companies : companies[i] = name

(* The clients table with no row found for a pair and no constraint. *)
ClientKeyUnconstrained(passport) == FALSE

(* uq_clients_passport_dob *)
ClientKeyTaken(passport) == \E i \in DOMAIN clients : clients[i].passport = passport

(* The contract number column without its unique constraint. *)
ContractNumberUnconstrained(n) == FALSE

(* Package.contract_number, unique=True *)
ContractNumberTaken(n) == \E i \in DOMAIN packages : packages[i].contract_number = n

(* The documents table without uq_documents_pkg_type_ver. *)
DocumentKeysUnchecked(docs) == TRUE

(* uq_documents_pkg_type_ver over the bag of rows docs *)
DocumentKey(d) == <<d.package_id, d.doc_type, d.version>>
DocumentKeysUnique(docs) ==
    \A d, e \in BagToSet(docs) :
        /\ CopiesIn(d, docs) = 1
        /\ (DocumentKey(d) = DocumentKey(e)) => (d = e)

(* ------------------------ POST /internal/companies -------------------- *)
InternalCreateCompany ==
    \E key_ok \in BOOLEAN, name \in CompanyNames :
        IF ~RequireInternalKey(key_ok) THEN Unauthorized("create_company", key_ok)
        ELSE IF CompanyNameTaken(name)
        THEN RejectRequest([NoReq EXCEPT !.key_ok = key_ok],
                           "create_company", 400, "Company create failed", "")
        ELSE /\ Len(companies) < MaxCompanies
             /\ companies' = Append(companies, name)
             /\ resp' = ResponseTo([NoReq EXCEPT !.key_ok = key_ok],
                                   "create_company", 200, "", "")
             /\ UNCHANGED <<clients, packages, jobs, documents, queue, inflight>>

(* ------------------------ POST /packages/generate --------------------- *)
(* A loop that takes the candidate of its first pass, held or not. *)
AllocationRunsTakingAny(held, attempts, drawn) ==
    {[contract_number |-> c, draws |-> drawn + 1] : c \in ContractNumbers}

(* The runs of the loop of main.py 120-125 with attempts passes left and   *)
(* drawn candidates drawn so far, held being the contract numbers          *)
(* committed: each pass draws one candidate; a free one ends the loop, a   *)
(* held one leads to the next pass.  A run is the value contract_number    *)
(* ends with, 0 standing for None, and the number of candidates drawn.     *)
RECURSIVE AllocationRuns(_, _, _)
AllocationRuns(held, attempts, drawn) ==
    IF attempts = 0 THEN {[contract_number |-> 0, draws |-> drawn]}
    ELSE {[contract_number |-> c, draws |-> drawn + 1] : c \in ContractNumbers \ held}
         \cup (IF ContractNumbers \cap held # {}
               THEN AllocationRuns(held, attempts - 1, drawn + 1)
               ELSE {})

(* The values contract_number can end with after the loop. *)
AllocateContractNumber(held, attempts) ==
    {run.contract_number : run \in AllocationRuns(held, attempts, 0)}

(* select(Package.id).where(Package.contract_number == candidate), main.py 122 *)
ContractNumberExists(n) == \E i \in DOMAIN packages : packages[i].contract_number = n

HeldContractNumbers == {n \in ContractNumbers : ContractNumberExists(n)}

(* select(Client).where(passport_no ==, dob ==): the row's id, 0 for none *)
ClientLookup(passport) ==
    IF ClientKeyTaken(passport)
    THEN CHOOSE i \in DOMAIN clients : clients[i].passport = passport
    ELSE 0

(* The full_name the session loaded with the client, 0 with none. *)
LoadedName(client_id) == IF client_id = 0 THEN 0 ELSE clients[client_id].full_name

GeneratePackageBegin(lim) ==
    /\ CreatingCanBegin(lim)
    /\ \E company_id \in 1..(MaxCompanies + 1), fx \in FxInputs :
        IF company_id \notin DOMAIN companies
        THEN Reject("generate", 400, "company_id not found", "")
        ELSE IF fx = "manual_no_rate"
        THEN Reject("generate", 400, "fx_rate is required for manual fx", "")
        ELSE IF fx = "cbr_unavailable"
        THEN Reject("generate", 502, "Failed to fetch CBR fx rate", "")
        ELSE \E passport \in lim.passports, full_name \in lim.names,
                contract_number \in
                    AllocateContractNumber(HeldContractNumbers, ALLOC_ATTEMPTS) :
            IF contract_number = 0
            THEN Reject("generate", 500, "Failed to allocate unique contract number", "")
            ELSE /\ RoomForPackage(lim)
                 /\ RoomForJob(lim)
                 /\ inflight' = Add([NoTxn EXCEPT !.op = "generate",
                                         !.company = company_id,
                                         !.client = ClientLookup(passport),
                                         !.seen_name = LoadedName(ClientLookup(passport)),
                                         !.passport = passport,
                                         !.full_name = full_name,
                                         !.contract_number = contract_number])
                 /\ resp' = NoResp
                 /\ UNCHANGED <<ledger, queue>>

(* A package left with the version_counter it is constructed with. *)
PackageRowCounterZero(contract_number, client_id, company_id) ==
    [status |-> "created", version_counter |-> 0,
     contract_number |-> contract_number,
     client_id |-> client_id, company_id |-> company_id]

(* models.Package(...) of main.py 129-148 after package.version_counter = 1 *)
PackageRow(contract_number, client_id, company_id) ==
    [status |-> "created", version_counter |-> 1,
     contract_number |-> contract_number,
     client_id |-> client_id, company_id |-> company_id]

(* models.Job(...) of main.py 152-160 and 183-191 *)
JobRow(package_id, version) ==
    [package_id |-> package_id, status |-> "queued", version |-> version,
     error_message |-> None, started_at |-> FALSE, finished_at |-> FALSE]

(* db.commit() of generate_package: INSERT of the client or, when the      *)
(* name given is not the name loaded, its UPDATE; INSERT                   *)
(* of the package with version_counter 1, INSERT of the job; an            *)
(* IntegrityError rolls all of it back and is answered 500, its detail     *)
(* naming the constraint of the first statement that failed.               *)
GeneratePackageCommit ==
    \E t \in Pending("generate", "commit") :
        IF (t.client = 0 /\ ClientKeyTaken(t.passport))
           \/ ContractNumberTaken(t.contract_number)
        THEN /\ resp' = Response("generate", 500,
                       IF t.client = 0 /\ ClientKeyTaken(t.passport)
                       THEN "DB integrity error: uq_clients_passport_dob"
                       ELSE "DB integrity error: contract_number", "")
             /\ inflight' = Remove(t)
             /\ UNCHANGED <<ledger, queue>>
        ELSE LET client_id == IF t.client = 0 THEN Len(clients) + 1 ELSE t.client
                 package_id == Len(packages) + 1
                 job_id == Len(jobs) + 1
             IN /\ clients' =
                       IF t.client = 0
                       THEN Append(clients, [passport |-> t.passport,
                                             full_name |-> t.full_name])
                       ELSE [clients EXCEPT ![t.client].full_name =
                                 IF t.seen_name # t.full_name THEN t.full_name ELSE @]
                /\ packages' = Append(packages,
                       PackageRow(t.contract_number, client_id, t.company))
                /\ jobs' = Append(jobs, JobRow(package_id, 1))
                /\ inflight' = Remove(t) (+) SetToBag({[NoTxn EXCEPT
                       !.op = "generate", !.pc = "enqueue",
                       !.job = job_id, !.pkg = package_id]})
                /\ resp' = NoResp
                /\ UNCHANGED <<companies, documents, queue>>

(* enqueue_job called with its two ids in each other's place. *)
EnqueueJobIdsSwapped(op) ==
    \E t \in Pending(op, "enqueue") :
        /\ queue' = Append(queue, [job_id |-> t.pkg, package_id |-> t.job])
        /\ inflight' = Remove(t)
        /\ resp' = Response(op, 200, "", "")
        /\ UNCHANGED ledger

(* enqueue_job pushing its message twice. *)
EnqueueJobTwice(op) ==
    \E t \in Pending(op, "enqueue") :
        /\ queue' = queue \o <<[job_id |-> t.job, package_id |-> t.pkg],
                                [job_id |-> t.job, package_id |-> t.pkg]>>
        /\ inflight' = Remove(t)
        /\ resp' = [op |-> op, code |-> 200, detail |-> "", seen |-> "",
                    req |-> [key_ok |-> TRUE, other_version |-> FALSE],
                    body |-> <<>>]
        /\ UNCHANGED ledger

(* enqueue_job: RPUSH visa_jobs {"job_id", "package_id"}, then the 200. *)
EnqueueJob(op) ==
    \E t \in Pending(op, "enqueue") :
        /\ queue' = Append(queue, [job_id |-> t.job, package_id |-> t.pkg])
        /\ inflight' = Remove(t)
        /\ resp' = Response(op, 200, "", "")
        /\ UNCHANGED ledger

GeneratePackageEnqueue == EnqueueJob("generate")

(* A handler that stops after its commit with the message pushed all the   *)
(* same.                                                                   *)
CreatingStopsAfterPush ==
    \E t \in Pending("generate", "enqueue") \cup Pending("regenerate", "enqueue") :
        /\ inflight' = Remove(t) (+) SetToBag({[t EXCEPT !.pc = "stopped"]})
        /\ queue' = Append(queue, [job_id |-> t.job, package_id |-> t.pkg])
        /\ resp' = NoResp
        /\ UNCHANGED ledger

(* The process of generate_package or regenerate_package stops between     *)
(* its db.commit() and its enqueue_job (main.py 164-169, 193-195): the     *)
(* rows are committed, nothing is pushed and nothing is answered.          *)
CreatingStops ==
    \E t \in Pending("generate", "enqueue") \cup Pending("regenerate", "enqueue") :
        /\ inflight' = Remove(t) (+) SetToBag({[t EXCEPT !.pc = "stopped"]})
        /\ resp' = NoResp
        /\ UNCHANGED <<ledger, queue>>

(* ------------------- POST /packages/{id}/regenerate ------------------- *)
RegeneratePackageBegin(lim) ==
    /\ CreatingCanBegin(lim)
    /\ RoomForJob(lim)
    /\ \E package_id \in 1..(Len(packages) + 1) :
        IF package_id \notin DOMAIN packages
        THEN Reject("regenerate", 404, "package not found", "")
        ELSE /\ inflight' = Add([NoTxn EXCEPT !.op = "regenerate",
                                     !.pkg = package_id,
                                     !.version = packages[package_id].version_counter + 1])
             /\ resp' = NoResp
             /\ UNCHANGED <<ledger, queue>>

(* A regenerate that also puts the package back to created. *)
WithVersionCounterAndStatus(row, next_version) ==
    [row EXCEPT !.version_counter = next_version, !.status = "created"]

(* pkg.version_counter = next_version, main.py 181: the only attribute of  *)
(* the package the handler sets.                                           *)
WithVersionCounter(row, next_version) ==
    [row EXCEPT !.version_counter = next_version]

(* db.commit() of regenerate_package: UPDATE packages SET version_counter  *)
(* = next_version WHERE id = ..., INSERT of the job.                       *)
RegeneratePackageCommit ==
    \E t \in Pending("regenerate", "commit") :
        /\ packages' = [packages EXCEPT
               ![t.pkg] = WithVersionCounter(@, t.version)]
        /\ jobs' = Append(jobs, JobRow(t.pkg, t.version))
        /\ inflight' = Remove(t) (+) SetToBag({[NoTxn EXCEPT
               !.op = "regenerate", !.pc = "enqueue",
               !.job = Len(jobs) + 1, !.pkg = t.pkg]})
        /\ resp' = NoResp
        /\ UNCHANGED <<companies, clients, documents, queue>>

RegeneratePackageEnqueue == EnqueueJob("regenerate")

(* ----------------------- callers of the handlers ---------------------- *)
(* A handler is called by a client of the API (Nobody waits in the model)  *)
(* or by a worker, which waits for the answer: w is the worker's record in *)
(* inflight.  requests raises for a status of 400 and above               *)
(* (worker.py 113, 120, 126: raise_for_status), and the worker's loop      *)
(* answers what process_job raises with a fail call (worker.py 342-348);   *)
(* what the fail call raises is dropped.                                   *)
Nobody == NoTxn
CallerOf(w) == IF w = Nobody THEN 0 ELSE 1
Without(w) == IF w = Nobody THEN inflight ELSE Remove(w)

(* type(e).__name__ has 9 characters for HTTPError, 12 for RuntimeError   *)
(* and 18 for UnicodeEncodeError                                           *)
ErrorClasses == {"HTTPError", "RuntimeError"}
ClassNameLength(class) ==
    IF class = "HTTPError" THEN 9
    ELSE IF class = "UnicodeEncodeError" THEN 18 ELSE 12
(* len(f"worker_failed: {type(e).__name__}") *)
WorkerMessageLength(class) == 15 + ClassNameLength(class)

(* A worker whose message goes on with the id of the job. *)
WorkerToFailNamingJob(job_id, package_id, class) ==
    [NoTxn EXCEPT !.op = "worker", !.pc = "fail", !.job = job_id,
                  !.pkg = package_id, !.error_class = class,
                  !.message = Some(WorkerMessageLength(class) + job_id)]

(* The worker with the exception e of class type(e).__name__ caught        *)
(* (worker.py 341-345): about to call fail with the message made of the    *)
(* class name.                                                             *)
WorkerToFail(job_id, package_id, class) ==
    [NoTxn EXCEPT !.op = "worker", !.pc = "fail", !.job = job_id,
                  !.pkg = package_id, !.error_class = class,
                  !.message = Some(WorkerMessageLength(class))]

(* The worker after the answer code to its call op, as a bag: it reports   *)
(* a payload or complete call that raised, and is back at its brpop        *)
(* otherwise.                                                              *)
WorkerAfter(caller, job_id, package_id, op, code) ==
    IF caller = 1 /\ op # "fail" /\ code >= 400
    THEN SetToBag({WorkerToFail(job_id, package_id, "HTTPError")})
    ELSE EmptyBag

(* A handler called by w raises HTTPException before its commit. *)
RejectCall(w, req, op, code, detail, seen) ==
    /\ resp' = ResponseTo(req, op, code, detail, seen)
    /\ inflight' = Without(w) (+) WorkerAfter(CallerOf(w), w.job, w.pkg, op, code)
    /\ UNCHANGED <<ledger, queue>>

(* A handler called by w has passed its guards and is at its commit. *)
HoldCall(w, t) ==
    /\ resp' = NoResp
    /\ inflight' = Without(w) (+) SetToBag({[t EXCEPT !.caller = CallerOf(w)]})
    /\ UNCHANGED <<ledger, queue>>

(* ---------------- GET /internal/jobs/{id}/payload --------------------- *)
(* The handler reads the job, its package, client and company and writes   *)
(* nothing; seen is the version it reports for the job.                    *)
JobPayload(w, key_ok, job_id, next) ==
    LET req == [NoReq EXCEPT !.key_ok = key_ok]
    IN IF ~RequireInternalKey(key_ok)
       THEN RejectCall(w, req, "payload", 401, "Unauthorized", "")
       ELSE IF job_id \notin DOMAIN jobs
       THEN RejectCall(w, req, "payload", 404, "job not found", "")
       ELSE /\ resp' = ResponseTo(req, "payload", 200, "", "")
            /\ inflight' = Without(w) (+) next
            /\ UNCHANGED <<ledger, queue>>

InternalJobPayload ==
    \E key_ok \in BOOLEAN, job_id \in 1..(Len(jobs) + 1) :
        JobPayload(Nobody, key_ok, job_id, EmptyBag)

(* ------------------ POST /internal/jobs/{id}/start -------------------- *)
(* A start guard that only refuses finished jobs. *)
StartAllowedUnlessFinished(status) == status \in {"queued", "running"}

(* The guard of main.py 578. *)
StartAllowed(status) == status = "queued"

InternalJobStartBegin ==
    /\ CanBegin
    /\ \E key_ok \in BOOLEAN, job_id \in 1..(Len(jobs) + 1) :
        LET req == [NoReq EXCEPT !.key_ok = key_ok]
        IN IF ~RequireInternalKey(key_ok)
           THEN RejectCall(Nobody, req, "start", 401, "Unauthorized", "")
           ELSE IF job_id \notin DOMAIN jobs
           THEN RejectCall(Nobody, req, "start", 404, "job not found", "")
           ELSE IF ~StartAllowed(jobs[job_id].status)
           THEN RejectCall(Nobody, req, "start", 409, "job is not queued",
                           jobs[job_id].status)
           ELSE HoldCall(Nobody,
                    [NoTxn EXCEPT !.op = "start", !.job = job_id, !.req = req,
                                  !.seen_status = jobs[job_id].status,
                                  !.seen_error = jobs[job_id].error_message])

(* db.commit() of internal_job_start: UPDATE jobs SET status = running,    *)
(* started_at = now() WHERE id = ...; error_message is written only when   *)
(* the session had loaded one.                                             *)
InternalJobStartCommit ==
    \E t \in Pending("start", "commit") :
        /\ jobs' = [jobs EXCEPT
               ![t.job].status = "running",
               ![t.job].started_at = TRUE,
               ![t.job].error_message = IF t.seen_error # None THEN None ELSE @]
        /\ inflight' = Remove(t)
        /\ resp' = ResponseTo(t.req, "start", 200, "", t.seen_status)
        /\ UNCHANGED <<companies, clients, packages, documents, queue>>

(* ----------------- POST /internal/jobs/{id}/complete ------------------ *)
(* The guard of main.py 593 and 643. *)
FinishAllowed(status) == status = "running"

(* The version check of main.py 613-616 left out. *)
FileItemErrorNoVersionCheck(f, expected_version) ==
    IF f.doc_type = "" \/ ~f.has_key THEN "Invalid file item"
    ELSE IF f.doc_type \notin DocumentType THEN "Invalid doc_type"
    ELSE ""

(* The checks of one item of body.files, main.py 602-616, in their order:  *)
(* the detail of the 400 it raises, "" when it raises none; ValueError is  *)
(* what int(file_version) raises, which the handler does not catch.        *)
FileItemError(f, expected_version) ==
    IF f.doc_type = "" \/ ~f.has_key THEN "Invalid file item"
    ELSE IF f.doc_type \notin DocumentType THEN "Invalid doc_type"
    ELSE IF f.version = NotANumber THEN "ValueError"
    ELSE IF f.version # None /\ f.version[1] # expected_version THEN "version mismatch"
    ELSE ""

(* The loop of main.py 601-627: the first item's error ends the handler. *)
RECURSIVE FilesError(_, _)
FilesError(files, expected_version) ==
    IF files = <<>> THEN ""
    ELSE IF FileItemError(Head(files), expected_version) # ""
    THEN FileItemError(Head(files), expected_version)
    ELSE FilesError(Tail(files), expected_version)

(* An item of files declares an integer version other than the job's. *)
DeclaresOtherVersion(files, expected_version) ==
    \E i \in DOMAIN files :
        /\ files[i].version \notin {None, NotANumber}
        /\ files[i].version[1] # expected_version

JobComplete(w, key_ok, job_id, files) ==
    LET key == [NoReq EXCEPT !.key_ok = key_ok]
    IN IF ~RequireInternalKey(key_ok)
       THEN RejectCall(w, key, "complete", 401, "Unauthorized", "")
       ELSE IF job_id \notin DOMAIN jobs
       THEN RejectCall(w, key, "complete", 404, "job not found", "")
       ELSE IF ~FinishAllowed(jobs[job_id].status)
       THEN RejectCall(w, key, "complete", 409, "job is not running",
                       jobs[job_id].status)
       ELSE LET job == jobs[job_id]
                expected_version == job.version
                error == FilesError(files, expected_version)
                req == [key EXCEPT !.other_version =
                            DeclaresOtherVersion(files, expected_version)]
            IN IF error # ""
               THEN RejectCall(w, req, "complete",
                               IF error = "ValueError" THEN 500 ELSE 400,
                               error, job.status)
               ELSE HoldCall(w, [NoTxn EXCEPT
                        !.op = "complete", !.job = job_id, !.pkg = job.package_id,
                        !.req = req,
                        !.seen_status = job.status,
                        !.seen_error = job.error_message,
                        !.seen_pkg_status = packages[job.package_id].status,
                        !.version = expected_version,
                        !.docs = [i \in DOMAIN files |-> files[i].doc_type]])

(* The handler reads body.files only once it is past its guards: the      *)
(* bodies that make a difference to a call.                                *)
FilesRead(items, key_ok, job_id) ==
    IF /\ RequireInternalKey(key_ok)
       /\ job_id \in DOMAIN jobs
       /\ FinishAllowed(jobs[job_id].status)
    THEN FileLists(items) ELSE {<<>>}

InternalJobCompleteBegin(lim) ==
    /\ CanBegin
    /\ \E key_ok \in BOOLEAN, job_id \in 1..(Len(jobs) + 1) :
        \E files \in FilesRead(lim.file_items, key_ok, job_id) :
            JobComplete(Nobody, key_ok, job_id, files)

(* The Document rows the session of a complete call holds pending, one    *)
(* per item of body.files, each with the job's version (main.py 618-627).  *)
RECURSIVE DocumentRows(_, _, _)
DocumentRows(doc_types, package_id, version) ==
    IF doc_types = <<>> THEN EmptyBag
    ELSE SetToBag({[package_id |-> package_id, doc_type |-> Head(doc_types),
                    version |-> version]})
         (+) DocumentRows(Tail(doc_types), package_id, version)
PendingDocuments(t) == DocumentRows(t.docs, t.pkg, t.version)

(* db.commit() of internal_job_complete: the INSERTs of the documents, the *)
(* UPDATE of the job and, when the package was not loaded as generated,    *)
(* the UPDATE of the package, as one transaction.  The IntegrityError of   *)
(* uq_documents_pkg_type_ver is not caught by the handler: nothing is      *)
(* written and the caller gets the 500 of an unhandled exception.          *)
InternalJobCompleteCommit ==
    \E t \in Pending("complete", "commit") :
        IF ~DocumentKeysUnique(documents (+) PendingDocuments(t))
        THEN /\ resp' = ResponseTo(t.req, "complete", 500, "IntegrityError",
                                   t.seen_status)
             /\ inflight' = Remove(t)
                    (+) WorkerAfter(t.caller, t.job, t.pkg, "complete", 500)
             /\ UNCHANGED <<ledger, queue>>
        ELSE /\ documents' = documents (+) PendingDocuments(t)
             /\ jobs' = [jobs EXCEPT
                    ![t.job].status = "done",
                    ![t.job].error_message = IF t.seen_error # None THEN None ELSE @,
                    ![t.job].finished_at = TRUE]
             /\ packages' = [packages EXCEPT
                    ![t.pkg].status = IF t.seen_pkg_status # "generated"
                                      THEN "generated" ELSE @]
             /\ inflight' = Remove(t)
             /\ resp' = ResponseTo(t.req, "complete", 200, "", t.seen_status)
             /\ UNCHANGED <<companies, clients, queue>>

(* ------------------- POST /internal/jobs/{id}/fail -------------------- *)
(* body.error_message[:2000], a message being modelled by its length *)
Truncate(length) == Min(length, ERROR_MESSAGE_MAX)

JobFail(w, key_ok, job_id, length) ==
    LET req == [NoReq EXCEPT !.key_ok = key_ok]
    IN IF ~RequireInternalKey(key_ok)
       THEN RejectCall(w, req, "fail", 401, "Unauthorized", "")
       ELSE IF job_id \notin DOMAIN jobs
       THEN RejectCall(w, req, "fail", 404, "job not found", "")
       ELSE IF ~FinishAllowed(jobs[job_id].status)
       THEN RejectCall(w, req, "fail", 409, "job is not running",
                       jobs[job_id].status)
       ELSE LET job == jobs[job_id]
            IN HoldCall(w, [NoTxn EXCEPT
                   !.op = "fail", !.job = job_id, !.pkg = job.package_id,
                   !.req = req,
                   !.seen_status = job.status,
                   !.seen_error = job.error_message,
                   !.seen_pkg_status = packages[job.package_id].status,
                   !.message = Some(length)])

InternalJobFailBegin(lim) ==
    /\ CanBegin
    /\ \E key_ok \in BOOLEAN, job_id \in 1..(Len(jobs) + 1),
          length \in lim.message_lengths :
        JobFail(Nobody, key_ok, job_id, length)

(* A fail call that also deletes the documents of the job's package. *)
InternalJobFailCommitDeletingDocuments ==
    \E t \in Pending("fail", "commit") :
        /\ jobs' = [jobs EXCEPT ![t.job].status = "error", ![t.job].finished_at = TRUE]
        /\ packages' = [packages EXCEPT ![t.pkg].status = "error"]
        /\ documents' = EmptyBag
        /\ inflight' = Remove(t)
        /\ resp' = ResponseTo(t.req, "fail", 200, "", t.seen_status)
        /\ UNCHANGED <<companies, clients, queue>>

(* db.commit() of internal_job_fail: UPDATE of the job and, when the       *)
(* package was not loaded as error, UPDATE of the package.  t.message is   *)
(* the request's error_message, stored cut to its first 2000 characters.   *)
InternalJobFailCommit ==
    \E t \in Pending("fail", "commit") :
        LET stored == Some(Truncate(t.message[1]))
        IN /\ jobs' = [jobs EXCEPT
                  ![t.job].status = "error",
                  ![t.job].error_message = IF t.seen_error # stored THEN stored ELSE @,
                  ![t.job].finished_at = TRUE]
           /\ packages' = [packages EXCEPT
                  ![t.pkg].status = IF t.seen_pkg_status # "error" THEN "error" ELSE @]
           /\ inflight' = Remove(t)
           /\ resp' = ResponseTo(t.req, "fail", 200, "", t.seen_status)
           /\ UNCHANGED <<companies, clients, documents, queue>>

(* ------------------------- windows_worker/worker.py ------------------- *)
(* "version": 1 of every item of files_for_backend (worker.py 291, 304) *)
WORKER_VERSION == 1

(* What a run of the renderer leaves to report: the document types of      *)
(* files_for_backend, the PDFs that pdf_map knows and then the bundle.     *)
RenderedDocTypes == {<<"bundle">>, <<"contract", "bundle">>}

(* files_for_backend, worker.py 284-307 *)
FilesForBackend(doc_types) ==
    [i \in DOMAIN doc_types |->
        [doc_type |-> doc_types[i], has_key |-> TRUE, version |-> Some(WORKER_VERSION)]]

WorkerAt(pc) == Pending("worker", pc)

(* The messages of the list visa_jobs.  enqueue_job pushes the JSON of     *)
(* job_id and package_id (queue.py 18-21); the list takes what any other   *)
(* client of the Redis server pushes: a string that is no JSON, JSON       *)
(* without job_id or without package_id, and JSON with both that names     *)
(* no job, with ids sys.stdout can write or ids it cannot (a lone          *)
(* surrogate, a character the stream's encoding does not have).            *)
Malformed == {"not_json", "no_job_id", "no_package_id"}
ForeignForms == Malformed \cup {"unknown_job", "unloggable"}
FormOf(msg) == IF "form" \in DOMAIN msg THEN msg.form ELSE "json"
IsForeign(msg) == FormOf(msg) # "json"
ForeignPush ==
    /\ Len(SelectSeq(queue, IsForeign)) < MaxForeignMessages
    /\ \E form \in ForeignForms :
          queue' = Append(queue, [job_id |-> 0, package_id |-> 0, form |-> form])
    /\ resp' = NoResp
    /\ UNCHANGED <<ledger, inflight>>

(* A worker that reads the last message and leaves it on the list. *)
WorkerPopLeavingMessage ==
    /\ NWorkersAtWork + NWorkersWaiting < NumWorkers
    /\ queue # <<>>
    /\ inflight' = Add([NoTxn EXCEPT !.op = "worker", !.pc = "payload",
                             !.job = queue[Len(queue)].job_id,
                             !.pkg = queue[Len(queue)].package_id])
    /\ resp' = NoResp
    /\ UNCHANGED <<ledger, queue>>

(* r.brpop(QUEUE_NAME, timeout=5) and the parse of the message            *)
(* (worker.py 327-338): the worker takes the element at the right end of   *)
(* the list, the end rpush appends to; a message that json.loads or the    *)
(* reads of "job_id" and "package_id" raise on is logged and skipped.      *)
WorkerPop ==
    /\ NWorkersAtWork + NWorkersWaiting < NumWorkers
    /\ queue # <<>>
    /\ LET msg == queue[Len(queue)]
       IN /\ queue' = SubSeq(queue, 1, Len(queue) - 1)
          /\ inflight' =
                IF FormOf(msg) \in Malformed THEN inflight
                ELSE Add([NoTxn EXCEPT !.op = "worker", !.pc = "payload",
                                       !.job = msg.job_id, !.pkg = msg.package_id,
                                       !.loggable = FormOf(msg) # "unloggable"])
    /\ resp' = NoResp
    /\ UNCHANGED ledger

(* process_job: its first statement writes the ids to sys.stdout           *)
(* (worker.py 213, log at 38-41), which raises UnicodeEncodeError on a     *)
(* string its encoder has no bytes for; then backend_get_job_payload       *)
(* (worker.py 221).                                                        *)
WorkerGetPayload ==
    \E w \in WorkerAt("payload") :
        IF ~w.loggable
        THEN /\ inflight' = Remove(w)
                    (+) SetToBag({[WorkerToFail(w.job, w.pkg, "UnicodeEncodeError")
                                      EXCEPT !.loggable = FALSE]})
             /\ resp' = NoResp
             /\ UNCHANGED <<ledger, queue>>
        ELSE JobPayload(w, TRUE, w.job, SetToBag({[w EXCEPT !.pc = "render"]}))

(* process_job from the downloads to the uploads (worker.py 222-300): it   *)
(* raises (a download or upload fails, the runner reports an error or no   *)
(* PDF), or it has the files to report.                                    *)
WorkerRender ==
    \E w \in WorkerAt("render") :
        /\ \/ \E class \in ErrorClasses :
                inflight' = Remove(w) (+) SetToBag({WorkerToFail(w.job, w.pkg, class)})
           \/ \E doc_types \in RenderedDocTypes :
                inflight' = Remove(w)
                    (+) SetToBag({[w EXCEPT !.pc = "complete", !.docs = doc_types]})
        /\ resp' = NoResp
        /\ UNCHANGED <<ledger, queue>>

(* backend_complete (worker.py 301) *)
WorkerComplete ==
    \E w \in WorkerAt("complete") :
        JobComplete(w, TRUE, w.job, FilesForBackend(w.docs))

(* backend_fail (worker.py 345) and the rest of the handler of the loop    *)
(* (worker.py 346-350): what the call raises is dropped, then the ids are  *)
(* written to sys.stdout, outside every try.  When that write raises, the  *)
(* exception leaves the loop and main: the worker process is down.  Ids    *)
(* that cannot be written name no job (a job's id is a uuid4).             *)
WorkerFail ==
    \E w \in WorkerAt("fail") :
        IF ~w.loggable
        THEN /\ resp' = Response("fail", 404, "job not found", "")
             /\ inflight' = Remove(w) (+) SetToBag({[w EXCEPT !.pc = "down"]})
             /\ UNCHANGED <<ledger, queue>>
        ELSE JobFail(w, TRUE, w.job, w.message[1])

(* A worker process stops (it is killed, its host goes down): what it had  *)
(* popped is gone with it, and a call it was waiting on goes on without    *)
(* it.                                                                     *)
WorkerStops ==
    \E w \in BagToSet(inflight) :
        /\ w.op = "worker" \/ w.caller = 1
        /\ inflight' = Remove(w)
               (+) (IF w.op = "worker" THEN EmptyBag
                    ELSE SetToBag({[w EXCEPT !.caller = 0]}))
        /\ resp' = NoResp
        /\ UNCHANGED <<ledger, queue>>

(* --------------------- GET /packages/{id}/download --------------------- *)
(* The bundle documents of a package, the one of a version, and those of   *)
(* the greatest version (order_by version desc).                           *)
BundlesOf(package_id) ==
    {d \in BagToSet(documents) :
        d.package_id = package_id /\ d.doc_type = "bundle"}
BundleAt(package_id, version) ==
    {d \in BundlesOf(package_id) : d.version = version}
LatestBundle(package_id) ==
    {d \in BundlesOf(package_id) :
        \A e \in BundlesOf(package_id) : e.version <= d.version}
(* The bundle of the version version_counter names when there is one,      *)
(* else the bundle of the greatest version.                                *)
BundleForDownload(package_id) ==
    LET vc == packages[package_id].version_counter
        bundle == IF vc > 0 THEN BundleAt(package_id, vc) ELSE {}
    IN IF bundle # {} THEN bundle ELSE LatestBundle(package_id)
Download(package_id, code, detail, version) ==
    [Response("download", code, detail, "")
        EXCEPT !.body = <<[package_id |-> package_id, version |-> version]>>]

(* download_package_zip: a read, it takes one step and writes nothing. *)
DownloadPackageZip ==
    \E package_id \in 1..(Len(packages) + 1) :
        /\ resp' =
              IF package_id \notin DOMAIN packages
              THEN Download(package_id, 404, "package not found", 0)
              ELSE IF BundleForDownload(package_id) = {}
              THEN Download(package_id, 404, "bundle not found", 0)
              ELSE LET bundle == CHOOSE d \in BundleForDownload(package_id) : TRUE
                   IN Download(package_id, 200, "", bundle.version)
        /\ UNCHANGED <<ledger, queue, inflight>>

(* ------------------- the reads that mask a passport -------------------- *)
(* digits = [i for i, ch in enumerate(s) if ch.isalnum()] *)
AlnumIndexes(s) == {i \in DOMAIN s : IsAlnum(s[i])}
(* A mask that keeps the last three. *)
LastThree(digits) == {i \in digits : Cardinality({j \in digits : j > i}) < 3}
(* keep = set(digits[-2:]) *)
LastTwo(digits) == {i \in digits : Cardinality({j \in digits : j > i}) < 2}
(* _mask_passport, the same function in get_package, search_clients and    *)
(* get_client.                                                             *)
MaskPassport(s) ==
    LET digits == AlnumIndexes(s)
        keep == LastTwo(digits)
    IN IF Cardinality(digits) <= 2
       THEN [i \in DOMAIN s |-> "*"]
       ELSE [i \in DOMAIN s |->
                IF i \in keep THEN s[i]
                ELSE IF IsAlnum(s[i]) THEN "*" ELSE s[i]]
ClientItem(client_id) ==
    [client_id |-> client_id,
     passport_masked |-> MaskPassport(clients[client_id].passport)]
Read(op, code, detail, items) ==
    [Response(op, code, detail, "") EXCEPT !.body = items]

(* GET /packages/{package_id} *)
GetPackage ==
    \E package_id \in 1..(Len(packages) + 1) :
        /\ resp' =
              IF package_id \notin DOMAIN packages
              THEN Read("get_package", 404, "package not found", <<>>)
              ELSE Read("get_package", 200, "",
                        <<ClientItem(packages[package_id].client_id)>>)
        /\ UNCHANGED <<ledger, queue, inflight>>

(* q in passport_no (like), q being a passport number here *)
Contains(s, q) ==
    \E i \in 0..(Len(s) - Len(q)) : SubSeq(s, i + 1, i + Len(q)) = q
(* The ids of the rows, newest first (order_by created_at desc), cut at     *)
(* limit.                                                                  *)
RECURSIVE NewestFirst(_, _)
NewestFirst(ids, limit) ==
    IF ids = {} \/ limit = 0 THEN <<>>
    ELSE LET newest == CHOOSE i \in ids : \A j \in ids : j <= i
         IN <<newest>> \o NewestFirst(ids \ {newest}, limit - 1)

(* GET /clients: with no query the newest clients, with one the newest of  *)
(* those whose passport number contains it; limit is 30 when not given.    *)
SearchClients ==
    \E query \in {None} \cup {Some(clients[c].passport) : c \in DOMAIN clients},
       limit \in {1, SEARCH_LIMIT} :
        LET found == {c \in DOMAIN clients :
                        query = None \/ Contains(clients[c].passport, query[1])}
            ids == NewestFirst(found, limit)
        IN /\ resp' = Read("search_clients", 200, "",
                           [i \in DOMAIN ids |-> ClientItem(ids[i])])
           /\ UNCHANGED <<ledger, queue, inflight>>

(* GET /clients/{client_id} *)
GetClient ==
    \E client_id \in 1..(Len(clients) + 1) :
        /\ resp' =
              IF client_id \notin DOMAIN clients
              THEN Read("get_client", 404, "client not found", <<>>)
              ELSE Read("get_client", 200, "", <<ClientItem(client_id)>>)
        /\ UNCHANGED <<ledger, queue, inflight>>

(* ---------------------------- specification --------------------------- *)
(* The handlers that create packages and jobs, alone.  They read and write *)
(* companies, clients, the rows of packages and jobs they insert, the      *)
(* column version_counter and the queue; the start, complete and fail      *)
(* handlers read and write none of these but the rows of jobs, which a     *)
(* creating handler only inserts.                                          *)
NextGeneration ==
    \/ InternalCreateCompany
    \/ GeneratePackageBegin(GenerationLimits)
    \/ GeneratePackageCommit
    \/ GeneratePackageEnqueue
    \/ RegeneratePackageBegin(GenerationLimits)
    \/ RegeneratePackageCommit
    \/ RegeneratePackageEnqueue

SpecGeneration == Init /\ [][NextGeneration]_vars

Next ==
    \/ InternalCreateCompany
    \/ GeneratePackageBegin(SpecLimits)
    \/ GeneratePackageCommit
    \/ GeneratePackageEnqueue
    \/ RegeneratePackageBegin(SpecLimits)
    \/ RegeneratePackageCommit
    \/ RegeneratePackageEnqueue
    \/ InternalJobStartBegin
    \/ InternalJobStartCommit
    \/ InternalJobCompleteBegin(SpecLimits)
    \/ InternalJobCompleteCommit
    \/ InternalJobFailBegin(SpecLimits)
    \/ InternalJobFailCommit

Spec == Init /\ [][Next]_vars

(* The internal endpoints, the payload among them, with requests of every  *)
(* kind, on the jobs of one package.                                       *)
NextRequests ==
    \/ InternalCreateCompany
    \/ GeneratePackageBegin(RequestsLimits)
    \/ GeneratePackageCommit
    \/ GeneratePackageEnqueue
    \/ InternalJobPayload
    \/ InternalJobStartBegin
    \/ InternalJobStartCommit
    \/ InternalJobCompleteBegin(RequestsLimits)
    \/ InternalJobCompleteCommit
    \/ InternalJobFailBegin(RequestsLimits)
    \/ InternalJobFailCommit

SpecRequests == Init /\ [][NextRequests]_vars

(* The workers on the queue: the handlers that create jobs, the workers    *)
(* and the handlers they call, and start calls, which a worker does not    *)
(* make, from a client of the API.                                         *)
NextWorker ==
    \/ InternalCreateCompany
    \/ GeneratePackageBegin(WorkerLimits)
    \/ GeneratePackageCommit
    \/ GeneratePackageEnqueue
    \/ RegeneratePackageBegin(WorkerLimits)
    \/ RegeneratePackageCommit
    \/ RegeneratePackageEnqueue
    \/ InternalJobStartBegin
    \/ InternalJobStartCommit
    \/ WorkerPop
    \/ WorkerGetPayload
    \/ WorkerRender
    \/ WorkerComplete
    \/ InternalJobCompleteCommit
    \/ WorkerFail
    \/ InternalJobFailCommit
    \/ WorkerStops

SpecWorker == Init /\ [][NextWorker]_vars

(* The way of a job from its commit to a worker, with the callers the      *)
(* repository has: clients calling generate and regenerate, and workers,   *)
(* which call payload, complete and fail.                                  *)
NextDispatch ==
    \/ InternalCreateCompany
    \/ GeneratePackageBegin(DispatchLimits)
    \/ GeneratePackageCommit
    \/ GeneratePackageEnqueue
    \/ RegeneratePackageBegin(DispatchLimits)
    \/ RegeneratePackageCommit
    \/ RegeneratePackageEnqueue
    \/ CreatingStops
    \/ WorkerPop
    \/ WorkerGetPayload
    \/ WorkerRender
    \/ WorkerComplete
    \/ WorkerFail
    \/ WorkerStops

SpecDispatch == Init /\ [][NextDispatch]_vars

(* The same with workers that stay alive. A worker that is alive goes on,  *)
(* and a handler that was called runs to its end; nothing makes a client   *)
(* call start.                                                             *)
NextWorkerAlive ==
    \/ InternalCreateCompany
    \/ GeneratePackageBegin(WorkerLimits)
    \/ GeneratePackageCommit
    \/ GeneratePackageEnqueue
    \/ RegeneratePackageBegin(WorkerLimits)
    \/ RegeneratePackageCommit
    \/ RegeneratePackageEnqueue
    \/ InternalJobStartBegin
    \/ InternalJobStartCommit
    \/ WorkerPop
    \/ WorkerGetPayload
    \/ WorkerRender
    \/ WorkerComplete
    \/ InternalJobCompleteCommit
    \/ WorkerFail
    \/ InternalJobFailCommit

WorkerFairness ==
    /\ WF_vars(GeneratePackageCommit) /\ WF_vars(GeneratePackageEnqueue)
    /\ WF_vars(RegeneratePackageCommit) /\ WF_vars(RegeneratePackageEnqueue)
    /\ WF_vars(InternalJobStartCommit)
    /\ WF_vars(WorkerPop) /\ WF_vars(WorkerGetPayload) /\ WF_vars(WorkerRender)
    /\ WF_vars(WorkerComplete) /\ WF_vars(InternalJobCompleteCommit)
    /\ WF_vars(WorkerFail) /\ WF_vars(InternalJobFailCommit)
SpecWorkerAlive == Init /\ [][NextWorkerAlive]_vars /\ WorkerFairness

(* The bundles of one package: the handlers that create its jobs, the      *)
(* start and complete calls that store a bundle for a job, one at a time,  *)
(* and the download.                                                       *)
NextDownload ==
    \/ InternalCreateCompany
    \/ GeneratePackageBegin(DownloadLimits)
    \/ GeneratePackageCommit
    \/ GeneratePackageEnqueue
    \/ RegeneratePackageBegin(DownloadLimits)
    \/ RegeneratePackageCommit
    \/ RegeneratePackageEnqueue
    \/ NHandlers = 0 /\ InternalJobStartBegin
    \/ InternalJobStartCommit
    \/ NHandlers = 0 /\ InternalJobCompleteBegin(DownloadLimits)
    \/ InternalJobCompleteCommit
    \/ DownloadPackageZip

SpecDownload == Init /\ [][NextDownload]_vars

(* The workers on a list that other clients of the Redis server push to    *)
(* as well: the handlers that create a job, start calls from a client of   *)
(* the API, the workers and the handlers they call.                        *)
NextMessages ==
    \/ InternalCreateCompany
    \/ GeneratePackageBegin(MessagesLimits)
    \/ GeneratePackageCommit
    \/ GeneratePackageEnqueue
    \/ ForeignPush
    \/ InternalJobStartBegin
    \/ InternalJobStartCommit
    \/ WorkerPop
    \/ WorkerGetPayload
    \/ WorkerRender
    \/ WorkerComplete
    \/ InternalJobCompleteCommit
    \/ WorkerFail
    \/ InternalJobFailCommit

SpecMessages == Init /\ [][NextMessages]_vars

(* The reads that show a client: a generate call stores the client with    *)
(* the passport number of its body, and the three reads mask it.           *)
NextMask ==
    \/ InternalCreateCompany
    \/ GeneratePackageBegin(MaskLimits)
    \/ GeneratePackageCommit
    \/ GeneratePackageEnqueue
    \/ GetPackage
    \/ SearchClients
    \/ GetClient

SpecMask == Init /\ [][NextMask]_vars

(* ------------------------------ claims -------------------------------- *)
(* The status a handler needs to have read to pass its guard. *)
Precondition(op) == IF op = "start" THEN "queued" ELSE "running"
JobOps == {"start", "complete", "fail"}
(* The step answers a call that passed the shared-secret check and named   *)
(* an existing job.                                                        *)
AnsweredJobCall(r) == r.op \in JobOps /\ r.code \notin {0, 401, 404}
LedgerOfJobsUnchanged ==
    jobs' = jobs /\ packages' = packages /\ documents' = documents

C1_Step ==
    AnsweredJobCall(resp') =>
        /\ (resp'.seen = Precondition(resp'.op)) <=> (resp'.code # 409)
        /\ (resp'.op \in {"start", "fail"}) => (resp'.code \in {200, 409})
        /\ (resp'.op = "complete") => (resp'.code \in {200, 400, 409, 500})
        /\ (resp'.code = 409) =>
              /\ LedgerOfJobsUnchanged
              /\ \E j \in DOMAIN jobs : jobs[j].status = resp'.seen
C2_Step ==
    \A j \in DOMAIN jobs :
        /\ jobs[j].status \in {"done", "error"} =>
              jobs'[j].status = jobs[j].status
        /\ jobs[j].status # "queued" => jobs'[j].status # "queued"
C2_TerminalIsFinal == [][C2_Step]_vars

(* The step is the commit of a regenerate call: it adds a job to a         *)
(* package that already exists.                                            *)
RegenerateCommitted ==
    /\ Len(jobs') = Len(jobs) + 1
    /\ Len(packages') = Len(packages)
AddedJob == jobs'[Len(jobs')]

(* C3: each successful regenerate call raises the package's stored version *)
(* counter by exactly 1 and creates one new queued job whose version is    *)
(* the new counter value.                                                  *)
C3_Step ==
    RegenerateCommitted =>
        /\ packages'[AddedJob.package_id].version_counter =
               packages[AddedJob.package_id].version_counter + 1
        /\ AddedJob.status = "queued"
        /\ AddedJob.version = packages'[AddedJob.package_id].version_counter
C3_RegenerateRaisesByOne == [][C3_Step]_vars

JobsOf(p) == {j \in DOMAIN jobs : jobs[j].package_id = p}

(* C4: the versions allocated to the jobs of one package, also by          *)
(* regenerate calls running concurrently, are pairwise distinct and        *)
(* consecutive: no two jobs of a package carry the same version and no     *)
(* version is skipped.                                                     *)
C4_VersionsDistinctConsecutive ==
    \A p \in DOMAIN packages :
        /\ \A i, j \in JobsOf(p) : i # j => jobs[i].version # jobs[j].version
        /\ {jobs[j].version : j \in JobsOf(p)} = 1..Cardinality(JobsOf(p))

(* C5: a package's version counter never decreases: its value after any    *)
(* step is greater than or equal to its value before.                      *)
C5_Step ==
    \A p \in DOMAIN packages :
        packages'[p].version_counter >= packages[p].version_counter
C5_CounterNeverDecreases == [][C5_Step]_vars

IsLatest(j) ==
    \A k \in JobsOf(jobs[j].package_id) : jobs[k].version <= jobs[j].version
StatusOfLatestJob ==
    \A j \in DOMAIN jobs :
        IsLatest(j) =>
            /\ jobs[j].status = "done" =>
                  packages[jobs[j].package_id].status = "generated"
            /\ jobs[j].status = "error" =>
                  packages[jobs[j].package_id].status = "error"

(* C6: a package's status reflects the outcome of its latest job only      *)
(* (the job with the highest version): once that job is terminal the       *)
(* status is generated if the job is done and error if it is error, and a  *)
(* complete or fail call for an older job of the package does not          *)
(* overwrite the status.                                                   *)
C6_Step ==
    /\ StatusOfLatestJob'
    /\ \A j \in DOMAIN jobs :
          (/\ ~IsLatest(j)
           /\ jobs[j].status = "running"
           /\ jobs'[j].status \in {"done", "error"}) =>
              packages'[jobs[j].package_id].status =
                  packages[jobs[j].package_id].status
C6_StatusFollowsLatestJob == [][C6_Step]_vars

(* C7: contract numbers are globally unique: in every reachable state,     *)
(* also after concurrent generate calls that drew the same candidate and   *)
(* both passed the existence check, no two packages have the same          *)
(* contract number.                                                        *)
C7_ContractNumbersUnique ==
    \A p, q \in DOMAIN packages :
        packages[p].contract_number = packages[q].contract_number => p = q

(* C7, witness: a generate call that passed the existence check lost the   *)
(* race for its contract number and was rolled back at commit.             *)
C7_Witness ==
    /\ resp = Response("generate", 500, "DB integrity error: contract_number", "")
    /\ Len(packages) >= 1

(* C8: in every reachable state there is at most one document row for      *)
(* each (package, document type, version) triple.                          *)
C8_OneDocumentPerTriple ==
    \A d, e \in BagToSet(documents) :
        /\ CopiesIn(d, documents) = 1
        /\ (/\ d.package_id = e.package_id
            /\ d.doc_type = e.doc_type
            /\ d.version = e.version) => d = e

(* C8, witness: a complete call that would have recorded a second row for  *)
(* a triple already in the ledger has been rejected.                       *)
C8_Witness ==
    /\ resp.op = "complete"
    /\ resp.code = 500
    /\ resp.detail = "IntegrityError"
    /\ documents # EmptyBag

(* The step answers a complete call at its commit. *)
CompleteCommitted(t) ==
    /\ t \in Pending("complete", "commit")
    /\ inflight' = Remove(t)
    /\ resp'.op = "complete"

(* C9: a complete call that is rejected for any reason records none of     *)
(* its artifacts and leaves the job's and the package's status as they     *)
(* were, and a rejection for a uniqueness violation is reported to the     *)
(* caller as a conflict.                                                   *)
C9_Step ==
    (resp'.op = "complete" /\ resp'.code \notin {0, 200}) =>
        /\ LedgerOfJobsUnchanged
        /\ (\E t \in BagToSet(inflight) : CompleteCommitted(t)) =>
              resp'.code = 409
C9_RejectedCompleteIsConflict == [][C9_Step]_vars

(* C10: a successful complete call on a running job takes effect as one    *)
(* step: one document row per artifact is recorded and, together, the job  *)
(* becomes done and its package generated.                                 *)
C10_Step ==
    \A t \in BagToSet(inflight) :
        (CompleteCommitted(t) /\ resp'.code = 200) =>
            /\ BagCardinality(documents') =
                   BagCardinality(documents) + Len(t.docs)
            /\ jobs'[t.job].status = "done"
            /\ packages'[t.pkg].status = "generated"
C10_CompleteIsAtomic == [][C10_Step]_vars

(* The step answers, at its commit, the call of txn t to handler op. *)
Committed(t, op) ==
    /\ t \in Pending(op, "commit")
    /\ inflight' = Remove(t) (+) WorkerAfter(t.caller, t.job, t.pkg, op, resp'.code)
    /\ resp'.op = op

C11_Step ==
    /\ (resp'.op = "complete" /\ resp'.req.key_ok /\ resp'.req.other_version) =>
          /\ resp'.seen = "running"
          /\ resp'.code \in {400, 500}
          /\ resp'.detail \in {"version mismatch", "Invalid file item",
                               "Invalid doc_type", "ValueError"}
          /\ LedgerOfJobsUnchanged
    /\ (resp'.op = "complete" /\ resp'.detail = "version mismatch") =>
          resp'.req.other_version
    /\ \A t \in BagToSet(inflight') : ~t.req.other_version
    /\ \A f \in FileItems, v \in 1..MaxJobs :
          f.version = None => FileItemError(f, v) # "version mismatch"
    /\ \A t \in BagToSet(inflight) :
          (Committed(t, "complete") /\ resp'.code = 200) =>
              \A d \in BagToSet(documents') :
                  CopiesIn(d, documents') > CopiesIn(d, documents) =>
                      (d.package_id = jobs[t.job].package_id
                       /\ d.version = jobs[t.job].version)
C12_Step ==
    /\ \A t \in BagToSet(inflight) :
          (Committed(t, "fail") /\ resp'.code = 200) =>
              /\ jobs'[t.job].status = "error"
              /\ jobs'[t.job].error_message =
                     Some(IF t.message[1] <= ERROR_MESSAGE_MAX
                          THEN t.message[1] ELSE ERROR_MESSAGE_MAX)
              /\ packages'[t.pkg].status = "error"
    /\ \A j \in DOMAIN jobs' :
          jobs'[j].error_message # None =>
              jobs'[j].error_message[1] <= ERROR_MESSAGE_MAX
C12_FailStoresTruncatedMessage == [][C12_Step]_vars

InternalOps == {"create_company", "payload", "start", "complete", "fail"}

(* C18: a call to an internal endpoint (payload, start, complete, fail,    *)
(* create company) without the right shared-secret header is answered     *)
(* 401 and leaves the ledger and the queue exactly as they were, whatever  *)
(* the job's status; no handler gets past its key check without the key.   *)
C18_Step ==
    /\ (resp'.op \in InternalOps /\ ~resp'.req.key_ok) =>
          /\ resp'.code = 401
          /\ UNCHANGED <<ledger, queue, inflight>>
    /\ resp'.code = 401 => (resp'.op \in InternalOps /\ ~resp'.req.key_ok)
    /\ \A t \in BagToSet(inflight') : t.req.key_ok
C18_UnauthorizedChangesNothing == [][C18_Step]_vars

(* C18, witness: a complete call without the key was refused while a job   *)
(* was running.                                                            *)
C18_Witness ==
    /\ resp.op = "complete"
    /\ resp.code = 401
    /\ \E j \in DOMAIN jobs : jobs[j].status = "running"

(* C13: a queue message for a job is pushed only after the transaction    *)
(* that created the job has committed: a message that enters the queue     *)
(* names a job already in the ledger, every message in the queue names a   *)
(* job and its package that exist, and a generate or regenerate call that  *)
(* fails pushes no message.                                                *)
C13_Step ==
    /\ \A i \in DOMAIN queue' :
          /\ queue'[i].job_id \in DOMAIN jobs'
          /\ queue'[i].package_id \in DOMAIN packages'
          /\ jobs'[queue'[i].job_id].package_id = queue'[i].package_id
          /\ i > Len(queue) => queue'[i].job_id \in DOMAIN jobs
    /\ (resp'.op \in {"generate", "regenerate"} /\ resp'.code \notin {0, 200}) =>
          queue' = queue
C13_PushAfterCommit == [][C13_Step]_vars

(* C13, witness: a generate call failed at its commit while the message of *)
(* an earlier job was in the queue.                                        *)
C13_Witness ==
    /\ resp.op = "generate"
    /\ resp.code = 500
    /\ resp.detail = "DB integrity error: uq_clients_passport_dob"
    /\ queue # <<>>

MessagesNaming(q, job_id) == {i \in DOMAIN q : q[i].job_id = job_id}

(* C19: a successful generate call creates, in one transaction, exactly    *)
(* one package with status created and version counter 1 and exactly one   *)
(* job for it with status queued and version 1, and afterwards pushes      *)
(* exactly one queue message, which names that job and package.            *)
C19_Step ==
    /\ Len(packages') \in {Len(packages), Len(packages) + 1}
    /\ Len(packages') = Len(packages) + 1 =>
          /\ Len(jobs') = Len(jobs) + 1
          /\ packages'[Len(packages')].status = "created"
          /\ packages'[Len(packages')].version_counter = 1
          /\ AddedJob.package_id = Len(packages')
          /\ AddedJob.status = "queued"
          /\ AddedJob.version = 1
          /\ queue' = queue
          /\ resp'.code = 0
          /\ \E t \in BagToSet(inflight') :
                t.op = "generate" /\ t.pc = "enqueue" /\ t.job = Len(jobs')
    /\ (resp'.op = "generate" /\ resp'.code = 200) =>
          /\ Len(queue') = Len(queue) + 1
          /\ SubSeq(queue', 1, Len(queue)) = queue
          /\ UNCHANGED ledger
          /\ LET m == queue'[Len(queue')]
             IN /\ m.job_id \in DOMAIN jobs
                /\ jobs[m.job_id].version = 1
                /\ jobs[m.job_id].package_id = m.package_id
                /\ MessagesNaming(queue, m.job_id) = {}
                /\ \A t \in BagToSet(inflight') : t.job # m.job_id
C20_Step ==
    (resp'.op = "generate" /\ resp'.code # 200) =>
        /\ resp'.code \in {0, 400, 500, 502}
        /\ resp'.code # 0 => UNCHANGED <<ledger, queue>>
C20_FailedGenerateChangesNothing == [][C20_Step]_vars

(* C20, witness: a generate call found every contract number held. *)
C20_Witness ==
    /\ resp.op = "generate"
    /\ resp.detail = "Failed to allocate unique contract number"
    /\ clients # <<>>

(* C14: the queue is first-in-first-out: a step that takes a message off   *)
(* the queue takes the one pushed first among those waiting.               *)
C14_Step == Len(queue') < Len(queue) => queue' = Tail(queue)
C14_QueueIsFifo == [][C14_Step]_vars

(* The step ends worker record w with no call made and no answer given:    *)
(* the worker stopped.                                                     *)
Stopped(w) ==
    /\ w.op = "worker"
    /\ BagIn(w, inflight)
    /\ inflight' = Remove(w)
    /\ resp' = NoResp
    /\ queue' = queue
Holding(bag, job_id) == {t \in BagToSet(bag) : t.op = "worker" /\ t.job = job_id}

(* C15: the message of a job is not lost when the worker that popped it    *)
(* stops before its complete or fail call: the job's message is then on    *)
(* the queue again, or in the hands of another worker.                     *)
C15_Step ==
    \A w \in BagToSet(inflight) :
        Stopped(w) =>
            MessagesNaming(queue', w.job) # {} \/ Holding(inflight', w.job) # {}
C15_StoppedWorkerLosesNothing == [][C15_Step]_vars

(* The step takes the delivery held in w from the payload call on to the   *)
(* renderer.                                                               *)
GoesOnToRender(w) ==
    /\ w \in WorkerAt("payload")
    /\ inflight' = Remove(w) (+) SetToBag({[w EXCEPT !.pc = "render"]})

(* C16: the delivery of a job that was already started is stopped: the     *)
(* worker, which takes no job from queued to running itself, does not go   *)
(* on to render a job that has left queued.                                *)
C16_Step ==
    \A w \in BagToSet(inflight) :
        GoesOnToRender(w) => jobs[w.job].status = "queued"
C16_StartedJobIsNotProcessedAgain == [][C16_Step]_vars

IsTerminal(job_id) ==
    job_id \in DOMAIN jobs /\ jobs[job_id].status \in {"done", "error"}

(* C17: under fairness, every job whose message is on the queue            *)
(* eventually reaches a terminal status, done or error.                    *)
C17_QueuedJobTerminates ==
    \A job_id \in 1..MaxWorkerJobs :
        (MessagesNaming(queue, job_id) # {}) ~> IsTerminal(job_id)

(* The step is a step of a regenerate call: its reads, its commit or its   *)
(* push, or its rejection.                                                 *)
RegenerateBegan ==
    \E t \in BagToSet(inflight') :
        t.op = "regenerate" /\ t.pc = "commit" /\ inflight' = Add(t)
RegenerateAnswered == resp'.op = "regenerate" /\ resp'.code # 0

(* C21: a regenerate call creates no package and leaves the package's      *)
(* client, company, contract number and status, every existing job and     *)
(* every document as they were: its commit changes only the package's      *)
(* version counter and adds one job, its other steps change nothing in     *)
(* the ledger; a regenerate call for a package id that does not exist is   *)
(* answered 404 and changes nothing.                                       *)
C21_Step ==
    /\ RegenerateCommitted =>
          LET p == AddedJob.package_id
          IN /\ p \in DOMAIN packages
             /\ \A q \in DOMAIN packages :
                   packages'[q] =
                       [packages[q] EXCEPT !.version_counter =
                            IF q = p THEN packages'[p].version_counter ELSE @]
             /\ SubSeq(jobs', 1, Len(jobs)) = jobs
             /\ UNCHANGED <<companies, clients, documents, queue>>
    /\ (RegenerateBegan \/ RegenerateAnswered) => UNCHANGED ledger
    /\ (RegenerateAnswered /\ resp'.code # 200) =>
          /\ resp'.code = 404
          /\ UNCHANGED <<ledger, queue, inflight>>
C21_RegenerateChangesOnlyTheCounter == [][C21_Step]_vars

(* C21, witness: a regenerate call has committed on a package that is      *)
(* generated and has documents.                                            *)
C21_Witness ==
    /\ Pending("regenerate", "enqueue") # {}
    /\ documents # EmptyBag
    /\ \E p \in DOMAIN packages : packages[p].status = "generated"

ClientsUnique ==
    \A i, j \in DOMAIN clients :
        clients[i].passport = clients[j].passport => i = j
GenerateCommitted == Len(packages') = Len(packages) + 1

(* C22: there is at most one client row per (passport number, date of      *)
(* birth) pair in every state, also after concurrent generate calls for    *)
(* the same new person; a generate call whose pair matches an existing     *)
(* client takes that row for its package and adds no client row.           *)
C22_Step ==
    /\ ClientsUnique'
    /\ Len(clients') \in {Len(clients), Len(clients) + 1}
    /\ \A i \in DOMAIN clients : clients'[i].passport = clients[i].passport
    /\ GenerateCommitted =>
          LET c == packages'[Len(packages')].client_id
          IN /\ c \in DOMAIN clients'
             /\ ClientKeyTaken(clients'[c].passport) =>
                   c \in DOMAIN clients /\ Len(clients') = Len(clients)
    /\ ~GenerateCommitted => Len(clients') = Len(clients)
JobsOwningCurrentVersion(p) ==
    {j \in JobsOf(p) : jobs[j].version = packages[p].version_counter}

(* C23: in every state each package has exactly one job whose version      *)
(* equals the package's version counter.                                   *)
C23_OneJobOwnsCurrentVersion ==
    \A p \in DOMAIN packages : Cardinality(JobsOwningCurrentVersion(p)) = 1

AllocationExhausted ==
    /\ resp.op = "generate"
    /\ resp.detail = "Failed to allocate unique contract number"

(* C24: a generate call fails for lack of a unique contract number only    *)
(* when every contract number is held by a package.                        *)
C24_ExhaustedOnlyWhenAllHeld ==
    AllocationExhausted => HeldContractNumbers = ContractNumbers

(* C25: the allocation draws at most 15 candidates and ends; the number it *)
(* takes is one that no committed package holds, taken as soon as it is    *)
(* drawn; it fails exactly when 15 candidates were drawn and all were      *)
(* held, and a generate call is answered with the allocation failure only  *)
(* after such a run.                                                       *)
C25_AllocationBounded ==
    LET runs == AllocationRuns(HeldContractNumbers, ALLOC_ATTEMPTS, 0)
        failed == {run \in runs : run.contract_number = 0}
    IN /\ runs # {}
       /\ \A run \in runs :
             /\ run.draws \in 1..ALLOC_ATTEMPTS
             /\ run.contract_number # 0 =>
                   run.contract_number \in ContractNumbers \ HeldContractNumbers
             /\ run.contract_number = 0 => run.draws = ALLOC_ATTEMPTS
       /\ (failed # {}) <=> (HeldContractNumbers # {})
       /\ AllocationExhausted => failed # {}
       /\ \A p, q \in DOMAIN packages :
             packages[p].contract_number = packages[q].contract_number => p = q

(* C25, witness: a generate call drew 15 held candidates while every       *)
(* contract number was held.                                               *)
C25_Witness ==
    /\ AllocationExhausted
    /\ HeldContractNumbers = ContractNumbers

(* C26: document rows are added only by a complete call that succeeds,     *)
(* which adds the rows of its files, and a row that exists is never        *)
(* changed or removed: no generate, regenerate, start or fail call and no  *)
(* rejected call changes the documents, and every step leaves each row     *)
(* there was, in the number there was.                                     *)
C26_Step ==
    /\ documents \sqsubseteq documents'
    /\ documents' # documents =>
          /\ resp'.op = "complete"
          /\ resp'.code = 200
          /\ \E t \in Pending("complete", "commit") :
                /\ inflight' = Remove(t)
                /\ documents' = documents (+) PendingDocuments(t)
C26_DocumentsOnlyGrow == [][C26_Step]_vars

(* C26, witness: with the documents of a first job stored, the job of a    *)
(* regenerate call was started and failed.                                 *)
C26_Witness ==
    /\ documents # EmptyBag
    /\ resp.op = "fail"
    /\ resp.code = 200
    /\ Len(jobs) = 2
    /\ jobs[2].status = "error"

(* A record of inflight that is a worker with a job in hand: between its   *)
(* brpop and a call, or waiting for the answer to a call.                  *)
InHand(t) == t.op = "worker" \/ t.caller = 1
JobsInHand == {t \in BagToSet(inflight) : InHand(t)}

(* C27: with several workers running, the jobs in the workers' hands are   *)
(* never more than the workers, one to a worker, and no two workers have   *)
(* the same job, and so the same working directory, in hand at a time.     *)
C27_NoJobInTwoHands ==
    /\ NWorkersAtWork + NWorkersWaiting <= NumWorkers
    /\ \A t \in JobsInHand :
          /\ CopiesIn(t, inflight) = 1
          /\ \A u \in JobsInHand : u.job = t.job => u = t

(* C27, witness: two workers have a job each in hand, one rendering and    *)
(* one waiting for the answer to its complete call.                        *)
C27_Witness ==
    \E t, u \in JobsInHand :
        /\ t.job # u.job
        /\ t.op = "worker" /\ t.pc = "render"
        /\ u.op = "complete" /\ u.caller = 1

(* The jobs whose handler stopped between its commit and its push. *)
LostJobs == {t.job : t \in {u \in BagToSet(inflight) : u.pc = "stopped"}}

ClassMessages == {Some(WorkerMessageLength(class)) : class \in ErrorClasses}

(* C29: the message a worker reports depends only on the class of the      *)
(* error: two workers that fail with the same class, on whatever jobs and  *)
(* packages, are about to send the same message, and the message a fail    *)
(* call of a worker carries is the message of an error class.              *)
C29_MessageDependsOnClassOnly ==
    /\ \A t, u \in WorkerAt("fail") :
          t.error_class = u.error_class => t.message = u.message
    /\ \A t \in BagToSet(inflight) :
          (t.op = "fail" /\ t.caller = 1) => t.message \in ClassMessages

(* C29, witness: two workers failed with the same class on the jobs of     *)
(* two versions; one is about to report, the fail call of the other is at  *)
(* its commit.                                                             *)
C29_Witness ==
    \E t \in WorkerAt("fail"), u \in Pending("fail", "commit") :
        /\ u.caller = 1
        /\ t.job # u.job
        /\ t.message = u.message

(* C30: the complete call a worker sends for a running job declares the    *)
(* job's version for every artifact and is not refused for its versions.   *)
C30_WorkerDeclaresJobVersion ==
    (resp.op = "complete" /\ resp.seen = "running") =>
        /\ ~resp.req.other_version
        /\ resp.detail # "version mismatch"

(* C31: at most one start call on a job succeeds, and at most one of its   *)
(* complete and fail calls: a call that is answered 200 commits on a job   *)
(* whose status is still the one its guard asks for, the status that the   *)
(* first success of its kind takes away.                                   *)
C31_Step ==
    \A op \in JobOps :
        \A t \in Pending(op, "commit") :
            (Committed(t, op) /\ resp'.code = 200) =>
                jobs[t.job].status = Precondition(op)
C31_OneSuccessOfAKind == [][C31_Step]_vars

(* C32: in every state every document row of a package and version has a   *)
(* job of that package and version whose status is done.                   *)
C32_DocumentsHaveADoneJob ==
    \A d \in BagToSet(documents) :
        \E j \in JobsOf(d.package_id) :
            jobs[j].version = d.version /\ jobs[j].status = "done"

DocumentsOf(p, v) ==
    {d \in BagToSet(documents) : d.package_id = p /\ d.version = v}

(* C33: in every state a done job has at least one document row of its     *)
(* package at its version, and a generated package has at least one        *)
(* document row.                                                           *)
C33_DoneJobHasDocuments ==
    /\ \A j \in DOMAIN jobs :
          jobs[j].status = "done" =>
              DocumentsOf(jobs[j].package_id, jobs[j].version) # {}
    /\ \A p \in DOMAIN packages :
          packages[p].status = "generated" =>
              \E d \in BagToSet(documents) : d.package_id = p

(* C34: in every state every job's version is at least 1 and at most the   *)
(* version counter of its package, and so is every document's version.     *)
C34_VersionsWithinCounter ==
    /\ \A j \in DOMAIN jobs :
          /\ jobs[j].version >= 1
          /\ jobs[j].version <= packages[jobs[j].package_id].version_counter
    /\ \A d \in BagToSet(documents) :
          d.version <= packages[d.package_id].version_counter

(* The handlers that have committed a job and not yet pushed its message. *)
ToPush(bag) == {t \in BagToSet(bag) : t.pc = "enqueue"}
CreatingOps == {"generate", "regenerate"}

(* C35: each job is pushed at most once, and once when its creating        *)
(* handler runs to its end: a handler comes to its push only in the step   *)
(* that commits its job, one handler to a job; a step that lengthens the   *)
(* queue appends one message, the one of a handler at its push, which      *)
(* ends with it answering 200; and a creating handler answers 200 only in  *)
(* such a step.                                                            *)
C35_Step ==
    /\ \A t \in ToPush(inflight') :
          /\ CopiesIn(t, inflight') = 1
          /\ \A u \in ToPush(inflight') : u.job = t.job => u = t
          /\ t \notin ToPush(inflight) =>
                /\ Len(jobs') = Len(jobs) + 1
                /\ t.job = Len(jobs')
                /\ queue' = queue
    /\ Len(queue') <= Len(queue) + 1
    /\ (Len(queue') > Len(queue)
           \/ (resp'.op \in CreatingOps /\ resp'.code = 200)) =>
          \E t \in ToPush(inflight) :
              /\ queue' = Append(queue, [job_id |-> t.job, package_id |-> t.pkg])
              /\ inflight' = Remove(t)
              /\ resp'.op = t.op
              /\ resp'.code = 200
              /\ MessagesNaming(queue, t.job) = {}
              /\ Holding(inflight, t.job) = {}
C35_PushedAtMostOnce == [][C35_Step]_vars

(* C35, witness: of three jobs the message of the first was pushed and     *)
(* taken by a worker, the handler of the second stopped before its push,   *)
(* and the message of the third is on the queue.                           *)
C35_Witness ==
    /\ Len(jobs) = 3
    /\ Holding(inflight, 1) # {}
    /\ 2 \in LostJobs
    /\ MessagesNaming(queue, 3) # {}

(* C36: in every state a job's fields agree with its status: an error      *)
(* message only with status error, a start time exactly with status        *)
(* running, done or error, a finish time exactly with status done or       *)
(* error.                                                                  *)
C36_FieldsAgreeWithStatus ==
    \A j \in DOMAIN jobs :
        /\ jobs[j].error_message # None => jobs[j].status = "error"
        /\ jobs[j].started_at <=> jobs[j].status \in {"running", "done", "error"}
        /\ jobs[j].finished_at <=> jobs[j].status \in {"done", "error"}

PopsMalformed ==
    /\ queue # <<>>
    /\ FormOf(queue[Len(queue)]) \in Malformed
    /\ queue' = SubSeq(queue, 1, Len(queue) - 1)
WorkersDown(bag) == {t \in BagToSet(bag) : t.op = "worker" /\ t.pc = "down"}

(* C38: the worker loop never stops because of a message: a worker that    *)
(* pops a message that is not valid JSON or lacks job_id or package_id     *)
(* changes nothing in the ledger and is back at its pop, and no worker is  *)
(* down after the processing of a job raised, whether or not its fail      *)
(* call succeeded.                                                         *)
C38_Step ==
    /\ PopsMalformed => (ledger' = ledger /\ inflight' = inflight)
    /\ WorkersDown(inflight') = {}
C38_LoopNeverStops == [][C38_Step]_vars

(* The part of C38 about the messages the worker cannot parse. *)
C38_MalformedSkipped ==
    [][PopsMalformed => (ledger' = ledger /\ inflight' = inflight)]_vars
(* The part of C38 about the messages whose ids can be written. *)
C38_DownOnlyUnloggable ==
    \A t \in WorkersDown(inflight) : ~t.loggable

MaskingOps == {"get_package", "search_clients", "get_client"}
(* The alphanumeric characters of s after position i. *)
AlnumAfter(s, i) == {j \in DOMAIN s : j > i /\ IsAlnum(s[j])}
Masked(s, m) ==
    /\ Len(m) = Len(s)
    /\ IF Cardinality({i \in DOMAIN s : IsAlnum(s[i])}) <= 2
       THEN \A i \in DOMAIN m : m[i] = "*"
       ELSE \A i \in DOMAIN m :
               IF IsAlnum(s[i]) /\ Cardinality(AlnumAfter(s, i)) >= 2
               THEN m[i] = "*"
               ELSE m[i] = s[i]

(* C39: the masked passport that get_package, search_clients and           *)
(* get_client show has the length of the passport number, keeps every      *)
(* non-alphanumeric character in place, shows the last two alphanumeric    *)
(* characters and has '*' for every other alphanumeric character; with     *)
(* two or fewer alphanumeric characters in the number every character is   *)
(* '*'.                                                                    *)
C39_MaskedPassport ==
    (resp.op \in MaskingOps /\ resp.code = 200) =>
        \A i \in DOMAIN resp.body :
            Masked(clients[resp.body[i].client_id].passport,
                   resp.body[i].passport_masked)
(* A number with a separator before its last two of more alphanumeric      *)
(* characters, shown by each of the reads.                                 *)
C39_Witness ==
    /\ resp.op \in MaskingOps /\ resp.code = 200
    /\ resp.body # <<>>
    /\ clients[resp.body[1].client_id].passport = <<"A", "7", "-", "7">>
    /\ resp.body[1].passport_masked = <<"*", "7", "-", "7">>
====
